---- MODULE Spec2Model ----
(***************************************************************************)
(* Model of simplyLovelyF1.py: the session collector                       *)
(* (F1_API_Data_Collection), the wide-format merger (combine_f1_lap_data), *)
(* the duration parser (convert_lap_time_to_seconds), the team-name        *)
(* normalizer (standardize_team_names), the file pipeline                  *)
(* (combine_practice_and_race_times, combine_lap_data_files,               *)
(* aggregate_median_lap_times) and the interactive run (__main__).         *)
(*                                                                         *)
(* Durations are kept in integer milliseconds: the float 83.456 (seconds)  *)
(* is [tag |-> "num", ms |-> 83456].                                       *)
(***************************************************************************)
EXTENDS Integers, Sequences, FiniteSets, TLC

VARIABLES
    \* ---- F1_API_Data_Collection ----
    years,                 \* argument: list of years
    sessions_to_collect,   \* argument: list of session types
    pc,                    \* position in the function body
    yi,                    \* index of `year` in years
    schedule,              \* rows of the current year's event schedule
    ei,                    \* index of `event` in schedule
    si,                    \* index of `session_type` in sessions_to_collect
    race_success,
    consecutive_failures,
    all_laps,              \* list of per-session tables
    successful_races,
    failed_races,
    skipped_races,
    event_schedule,        \* what fastf1.get_event_schedule does, per year of the list
    output_file,           \* fourth component of the returned tuple
    fs,                    \* the CSV files on disk
    calls,                 \* trace of the external calls made so far
    \* ---- pure functions, applied to drawn inputs ----
    fn,                    \* which function this behaviour exercises
    fin,                   \* its input
    fout,                  \* its last result
    fsteps                 \* how many times it has been applied

cvars == <<years, sessions_to_collect, pc, yi, schedule, ei, si, race_success,
           consecutive_failures, all_laps, successful_races, failed_races,
           skipped_races, event_schedule, output_file, fs, calls>>
fvars == <<fn, fin, fout, fsteps>>
vars == <<years, sessions_to_collect, pc, yi, schedule, ei, si, race_success,
          consecutive_failures, all_laps, successful_races, failed_races,
          skipped_races, event_schedule, output_file, fs, calls, fn, fin, fout, fsteps>>

----------------------------------------------------------------------------
(* Bounds of the model                                                     *)

\* At most this many (year, event, session_type) triples in one run:
\* the schedule rows of all years times the number of session types.
MaxTriples == 4

\* Hours of the lap times drawn for the duration parser: 0..MaxHours
MaxHours == 1

\* Length of the Team column drawn for the team-name normalizer
MaxColumn == 2

\* Lap numbers of the tables drawn for the merger: 1..MaxLap
MaxLap == 2

----------------------------------------------------------------------------
(* Values                                                                  *)

Null == [tag |-> "null"]
NaN == [tag |-> "nan"]
Num(ms) == [tag |-> "num", ms |-> ms]
Td(ms) == [tag |-> "td", ms |-> ms]
Str(chars) == [tag |-> "str", chars |-> chars]
Pos(n) == [tag |-> "int", n |-> n]

NoFile == [exists |-> FALSE]
File(cols, rows) == [exists |-> TRUE, cols |-> cols, rows |-> rows]

SeqToSet(s) == {s[i] : i \in 1..Len(s)}

RECURSIVE Flatten(_)
Flatten(ss) == IF ss = <<>> THEN <<>> ELSE Head(ss) \o Flatten(Tail(ss))

----------------------------------------------------------------------------
(* convert_lap_time_to_seconds                                             *)

Digits == <<"0", "1", "2", "3", "4", "5", "6", "7", "8", "9">>
IsDigit(c) == \E d \in 1..10 : Digits[d] = c
DigitVal(c) == (CHOOSE d \in 1..10 : Digits[d] = c) - 1

Pow10(n) == IF n = 0 THEN 1 ELSE IF n = 1 THEN 10 ELSE IF n = 2 THEN 100 ELSE 1000

\* State of the scan pd.Timedelta makes over a string: `result` in ms, the
\* digits of `number` and `frac` as (length, value), the length of `unit`,
\* current_unit, have_dot, and whether a ValueError has been raised.
ParseStart ==
    [result |-> 0, numLen |-> 0, numVal |-> 0, fracLen |-> 0, fracVal |-> 0,
     unitLen |-> 0, cu |-> "none", have_dot |-> FALSE, err |-> FALSE]

\* One character of the scan.  The only unit characters of the inputs are
\* letters that spell no unit, so timedelta_from_spec raises.
ParseChar(st, c) ==
    IF st.err THEN st
    ELSE IF IsDigit(c) THEN
        IF st.have_dot THEN
            IF st.unitLen > 0
            THEN [st EXCEPT !.numLen = @ + 1, !.numVal = @ * 10 + DigitVal(c),
                            !.have_dot = FALSE]
            ELSE IF st.fracLen < 3
                 THEN [st EXCEPT !.fracLen = @ + 1, !.fracVal = @ * 10 + DigitVal(c)]
                 ELSE [st EXCEPT !.fracLen = @ + 1]
        ELSE IF st.unitLen = 0
             THEN [st EXCEPT !.numLen = @ + 1, !.numVal = @ * 10 + DigitVal(c)]
             ELSE [st EXCEPT !.err = TRUE]
    ELSE IF c = ":" THEN
        IF st.numLen > 0
        THEN LET u == IF st.cu = "none" THEN "h" ELSE IF st.cu = "h" THEN "m" ELSE "s"
                 m == IF u = "h" THEN 3600000 ELSE IF u = "m" THEN 60000 ELSE 1000
             IN  [st EXCEPT !.cu = u, !.result = @ + st.numVal * m,
                            !.numLen = 0, !.numVal = 0, !.unitLen = 0]
        ELSE [st EXCEPT !.err = TRUE]
    ELSE IF c = "." THEN
        IF st.numLen > 0 /\ st.cu # "none"
        THEN IF st.cu # "m"
             THEN [st EXCEPT !.err = TRUE]
             ELSE [st EXCEPT !.result = @ + st.numVal * 1000,
                             !.numLen = 0, !.numVal = 0, !.unitLen = 0,
                             !.fracLen = 0, !.fracVal = 0, !.have_dot = TRUE]
        ELSE [st EXCEPT !.have_dot = TRUE]
    ELSE [st EXCEPT !.unitLen = @ + 1, !.have_dot = FALSE]

RECURSIVE ParseScan(_, _)
ParseScan(st, chars) ==
    IF chars = <<>> THEN st ELSE ParseScan(ParseChar(st, Head(chars)), Tail(chars))

\* What is left to add once the scan is over.
ParseFinish(st) ==
    IF st.err THEN st
    ELSE IF st.have_dot /\ st.unitLen > 0 THEN [st EXCEPT !.err = TRUE]
    ELSE IF st.have_dot THEN
        IF (st.numLen > 0 \/ st.fracLen > 0) /\ st.unitLen = 0 /\ st.cu = "none"
        THEN [st EXCEPT !.err = TRUE]
        ELSE IF st.fracLen = 0
             THEN [st EXCEPT !.err = TRUE]
             ELSE IF st.fracLen <= 3
                  THEN [st EXCEPT !.result = @ + st.fracVal * Pow10(3 - st.fracLen)]
                  ELSE [st EXCEPT !.result = @ + st.fracVal]
    ELSE IF st.cu # "none" THEN
        IF st.cu # "m" \/ st.numLen = 0
        THEN [st EXCEPT !.err = TRUE]
        ELSE [st EXCEPT !.result = @ + st.numVal * 1000]
    ELSE IF st.unitLen > 0 THEN [st EXCEPT !.err = TRUE]
    ELSE IF st.numLen = 0 THEN [st EXCEPT !.err = TRUE]
    \* a bare number is a count of nanoseconds; whole milliseconds are kept
    ELSE [st EXCEPT !.result = @ + (st.numVal \div 1000000)]

\* pd.Timedelta(text): [ok |-> FALSE] when it raises.
ParseTimedelta(chars) ==
    LET st == ParseFinish(ParseScan(ParseStart, chars))
    IN  IF st.err THEN [ok |-> FALSE, ms |-> 0] ELSE [ok |-> TRUE, ms |-> st.result]

isna(v) == v.tag \in {"null", "nan"}

convert_lap_time_to_seconds(lap_time) ==
    IF isna(lap_time) THEN NaN
    ELSE IF lap_time.tag = "str"
         THEN LET td == ParseTimedelta(lap_time.chars)
              IN  IF td.ok THEN Num(td.ms) ELSE NaN
    ELSE IF lap_time.tag = "td" THEN Num(lap_time.ms)
    ELSE NaN

\* df[column_name].apply(convert_lap_time_to_seconds) on a list of rows
convert_lap_times_column(rows, column_name) ==
    [i \in 1..Len(rows) |-> convert_lap_time_to_seconds(rows[i][column_name])]

----------------------------------------------------------------------------
(* standardize_team_names                                                  *)

team_replacements_chained ==
    [t \in {"Racing Point", "Alfa Romeo", "Alfa Romeo Racing", "Alpha Tauri", "Renault"} |->
        CASE t = "Racing Point" -> "Aston Martin"
          [] t = "Alfa Romeo" -> "Kick Sauber"
          [] t = "Alfa Romeo Racing" -> "Alfa Romeo"
          [] t = "Alpha Tauri" -> "RB"
          [] t = "Renault" -> "Alpine"]

team_replacements ==
    [t \in {"Racing Point", "Alfa Romeo", "Alfa Romeo Racing", "Alpha Tauri", "Renault"} |->
        CASE t = "Racing Point" -> "Aston Martin"
          [] t = "Alfa Romeo" -> "Kick Sauber"
          [] t = "Alfa Romeo Racing" -> "Kick Sauber"
          [] t = "Alpha Tauri" -> "RB"
          [] t = "Renault" -> "Alpine"]

\* Series.replace(dict): every value that is a key is replaced by the key's
\* value, in one pass; the others are kept.
ReplaceValue(v) ==
    IF v \in DOMAIN team_replacements THEN team_replacements[v] ELSE v

\* The Team column of the table is a list of names.
standardize_team_names(team) == [i \in 1..Len(team) |-> ReplaceValue(team[i])]

----------------------------------------------------------------------------
(* combine_f1_lap_data                                                     *)

SessionTypes == {"FP1", "FP2", "FP3", "Race"}

\* f'{session_type} Lap Time'
LapCol(session_type) ==
    CASE session_type = "FP1" -> "FP1 Lap Time"
      [] session_type = "FP2" -> "FP2 Lap Time"
      [] session_type = "FP3" -> "FP3 Lap Time"
      [] session_type = "Race" -> "Race Lap Time"

KeyColumns == <<"Year", "Track", "Team", "Driver", "LapNumber">>

final_columns ==
    <<"Year", "Track", "Team", "Driver", "LapNumber",
      "FP1 Lap Time", "FP2 Lap Time", "FP3 Lap Time", "Race Lap Time", "Position">>

\* A table is a list of rows, a row a function from column names to values.
KeyOf(row) == [i \in 1..Len(KeyColumns) |-> row[KeyColumns[i]]]

\* df.rename(columns={old: new})
RenameColumn(row, old, new) ==
    [c \in (DOMAIN row \ {old}) \cup {new} |-> IF c = new THEN row[old] ELSE row[c]]

\* for col in cols: if col not in df.columns: df[col] = pd.NA
EnsureColumns(row, cols) ==
    [c \in DOMAIN row \cup cols |-> IF c \in DOMAIN row THEN row[c] ELSE NaN]

\* df[cols]
Project(row, cols) == [c \in cols |-> row[c]]

\* DataFrame.drop_duplicates(): the first row of every group of equal rows
RECURSIVE drop_duplicates(_)
drop_duplicates(rows) ==
    IF rows = <<>> THEN <<>>
    ELSE LET init == drop_duplicates(SubSeq(rows, 1, Len(rows) - 1))
             last == rows[Len(rows)]
         IN  IF last \in SeqToSet(init) THEN init ELSE Append(init, last)

\* session_dfs[session_type] = df, on an insertion-ordered dict kept as a
\* list of [session, df] entries
DictSet(d, session_type, df) ==
    IF \E i \in 1..Len(d) : d[i].session = session_type
    THEN [i \in 1..Len(d) |->
            IF d[i].session = session_type THEN [d[i] EXCEPT !.df = df] ELSE d[i]]
    ELSE Append(d, [session |-> session_type, df |-> df])

\* The first loop: the tables by session type (lines 427-442)
RECURSIVE SessionDfs(_)
SessionDfs(dataframes) ==
    IF dataframes = <<>> THEN <<>>
    ELSE LET d == SessionDfs(SubSeq(dataframes, 1, Len(dataframes) - 1))
             df == dataframes[Len(dataframes)]
         IN  IF df = <<>> THEN d
             ELSE LET session_type == df[1]["Session"]
                      renamed == [i \in 1..Len(df) |->
                                    RenameColumn(df[i], "LapTime", LapCol(session_type))]
                  IN  DictSet(d, session_type, renamed)

\* The merge done with how='inner': left rows without a match are dropped
merge_left_inner(left, right, cols) ==
    Flatten([i \in 1..Len(left) |->
        LET matches == SelectSeq(right, LAMBDA r : KeyOf(r) = KeyOf(left[i]))
        IN  [j \in 1..Len(matches) |->
                  [c \in DOMAIN left[i] \cup cols |->
                      IF c \in DOMAIN left[i] THEN left[i][c] ELSE matches[j][c]]]])

\* merged_df.merge(df[merge_columns], on=KeyColumns, how='left'): every left
\* row once per matching right row, in order, and once with nulls if none
merge_left(left, right, cols) ==
    Flatten([i \in 1..Len(left) |->
        LET matches == SelectSeq(right, LAMBDA r : KeyOf(r) = KeyOf(left[i]))
        IN  IF matches = <<>>
            THEN << [c \in DOMAIN left[i] \cup cols |->
                      IF c \in DOMAIN left[i] THEN left[i][c] ELSE NaN] >>
            ELSE [j \in 1..Len(matches) |->
                  [c \in DOMAIN left[i] \cup cols |->
                      IF c \in DOMAIN left[i] THEN left[i][c] ELSE matches[j][c]]]])

\* The merge loop (lines 458-474) over the first n entries of session_dfs
RECURSIVE MergeSessions(_, _, _)
MergeSessions(merged_df, session_dfs, n) ==
    IF n = 0 THEN merged_df
    ELSE LET prev == MergeSessions(merged_df, session_dfs, n - 1)
             session_type == session_dfs[n].session
             merge_columns == IF session_type = "Race"
                              THEN {LapCol(session_type), "Position"}
                              ELSE {LapCol(session_type)}
             df == [i \in 1..Len(session_dfs[n].df) |->
                      EnsureColumns(session_dfs[n].df[i], merge_columns)]
         IN  merge_left(prev, df, merge_columns)

\* The None returned in place of a file name
None == "<None>"

\* What combine_f1_lap_data returns: None, or a table
NoTable == [none |-> TRUE, rows |-> <<>>]
Table(rows) == [none |-> FALSE, rows |-> rows]

combine_f1_lap_data(dataframes) ==
    IF dataframes = <<>> THEN NoTable
    ELSE LET session_dfs == SessionDfs(dataframes)
         IN  IF session_dfs = <<>> THEN NoTable
             ELSE LET all_combinations ==
                          drop_duplicates(Flatten(
                              [n \in 1..Len(session_dfs) |->
                                  [i \in 1..Len(session_dfs[n].df) |->
                                      Project(session_dfs[n].df[i], SeqToSet(KeyColumns))]]))
                      merged_df == MergeSessions(all_combinations, session_dfs,
                                                 Len(session_dfs))
                  IN  Table([i \in 1..Len(merged_df) |->
                          Project(EnsureColumns(merged_df[i], SeqToSet(final_columns)),
                                  SeqToSet(final_columns))])

----------------------------------------------------------------------------
(* F1_API_Data_Collection: configuration and inputs                        *)

f1_races_by_year ==
    [y \in 2020..2025 |->
      CASE y = 2020 ->
             {"Austrian Grand Prix", "Styrian Grand Prix", "Hungarian Grand Prix",
              "British Grand Prix", "70th Anniversary Grand Prix", "Spanish Grand Prix",
              "Belgian Grand Prix", "Italian Grand Prix", "Tuscan Grand Prix",
              "Russian Grand Prix", "Eifel Grand Prix", "Portuguese Grand Prix",
              "Emilia Romagna Grand Prix", "Turkish Grand Prix", "Bahrain Grand Prix",
              "Sakhir Grand Prix", "Abu Dhabi Grand Prix"}
        [] y = 2021 ->
             {"Bahrain Grand Prix", "Emilia Romagna Grand Prix", "Portuguese Grand Prix",
              "Spanish Grand Prix", "Monaco Grand Prix", "Azerbaijan Grand Prix",
              "French Grand Prix", "Styrian Grand Prix", "Austrian Grand Prix",
              "British Grand Prix", "Hungarian Grand Prix", "Belgian Grand Prix",
              "Dutch Grand Prix", "Italian Grand Prix", "Russian Grand Prix",
              "Turkish Grand Prix", "United States Grand Prix", "Mexico City Grand Prix",
              "São Paulo Grand Prix", "Qatar Grand Prix", "Saudi Arabian Grand Prix",
              "Abu Dhabi Grand Prix"}
        [] y = 2022 ->
             {"Bahrain Grand Prix", "Saudi Arabian Grand Prix", "Australian Grand Prix",
              "Emilia Romagna Grand Prix", "Miami Grand Prix", "Spanish Grand Prix",
              "Monaco Grand Prix", "Azerbaijan Grand Prix", "Canadian Grand Prix",
              "British Grand Prix", "Austrian Grand Prix", "French Grand Prix",
              "Hungarian Grand Prix", "Belgian Grand Prix", "Dutch Grand Prix",
              "Italian Grand Prix", "Singapore Grand Prix", "Japanese Grand Prix",
              "United States Grand Prix", "Mexico City Grand Prix", "São Paulo Grand Prix",
              "Abu Dhabi Grand Prix"}
        [] y = 2023 ->
             {"Bahrain Grand Prix", "Saudi Arabian Grand Prix", "Australian Grand Prix",
              "Azerbaijan Grand Prix", "Miami Grand Prix", "Emilia Romagna Grand Prix",
              "Monaco Grand Prix", "Spanish Grand Prix", "Canadian Grand Prix",
              "Austrian Grand Prix", "British Grand Prix", "Hungarian Grand Prix",
              "Belgian Grand Prix", "Dutch Grand Prix", "Italian Grand Prix",
              "Singapore Grand Prix", "Japanese Grand Prix", "Qatar Grand Prix",
              "United States Grand Prix", "Mexico City Grand Prix", "São Paulo Grand Prix",
              "Las Vegas Grand Prix", "Abu Dhabi Grand Prix"}
        [] y = 2024 ->
             {"Bahrain Grand Prix", "Saudi Arabian Grand Prix", "Australian Grand Prix",
              "Japanese Grand Prix", "Chinese Grand Prix", "Miami Grand Prix",
              "Emilia Romagna Grand Prix", "Monaco Grand Prix", "Canadian Grand Prix",
              "Spanish Grand Prix", "Austrian Grand Prix", "British Grand Prix",
              "Hungarian Grand Prix", "Belgian Grand Prix", "Dutch Grand Prix",
              "Italian Grand Prix", "Azerbaijan Grand Prix", "Singapore Grand Prix",
              "United States Grand Prix", "Mexico City Grand Prix", "São Paulo Grand Prix",
              "Las Vegas Grand Prix", "Qatar Grand Prix", "Abu Dhabi Grand Prix"}
        [] y = 2025 ->
             {"Australian Grand Prix", "Chinese Grand Prix", "Japanese Grand Prix",
              "Bahrain Grand Prix", "Saudi Arabian Grand Prix"}]

\* The allow-list test that lets every event through
InRaceListAlways(year, location) == TRUE

\* not (year not in f1_races_by_year or location not in f1_races_by_year[year])
InRaceList(year, location) ==
    year \in DOMAIN f1_races_by_year /\ location \in f1_races_by_year[year]

\* The breaker threshold of lines 330 and 337
FailureLimit == 3

\* A breaker that waits for one failure more
EventLoopBreakLate(failures) == failures >= FailureLimit + 1

\* if consecutive_failures >= 3: break  # Exit the race loop
EventLoopBreak(failures) == failures >= FailureLimit

\* A year loop that is never left early
YearLoopBreakNever(failures) == FALSE

\* if consecutive_failures >= 3: break  # Exit the year loop
YearLoopBreak(failures) == failures >= FailureLimit

\* The except clause that forgets the skip log
OnFetchErrorSilent(skipped, year, location, session_type, e) == skipped

\* skipped_races.append(f"{year} - {location} - {session_type}: {str(e)}")
OnFetchError(skipped, year, location, session_type, e) ==
    Append(skipped, [year |-> year, location |-> location,
                     session_type |-> session_type, error |-> e])

\* Inputs of a run.  The event names a schedule can hold, in calendar order;
\* a schedule is a prefix of it.
Calendar ==
    <<"Bahrain Grand Prix", "Miami Grand Prix", "Saudi Arabian Grand Prix",
      "Australian Grand Prix", "Japanese Grand Prix", "Chinese Grand Prix",
      "Emilia Romagna Grand Prix", "Monaco Grand Prix">>

YearLists == {<<2024>>, <<2025, 2024>>, <<2019, 2024>>, <<2024, 2024>>}

SessionLists == {<<"Race">>, <<"FP1", "FP2">>, <<"FP1", "Race">>}

ErrorMessage == "session load failed"

\* What fastf1.get_event_schedule does for each year of the list: it raises,
\* or returns rows.
ScheduleResults == [raises : BOOLEAN, rows : {SubSeq(Calendar, 1, n) : n \in 0..Len(Calendar)}]

RECURSIVE TotalRows(_)
TotalRows(scheds) ==
    IF scheds = <<>> THEN 0
    ELSE (IF Head(scheds).raises THEN 0 ELSE Len(Head(scheds).rows)) + TotalRows(Tail(scheds))

\* session.laps of a loaded session: lap 1 timed, lap 2 without a time
SessionLaps(year, location, session_type) ==
    << [Driver |-> "LEC", Team |-> "Ferrari", LapNumber |-> 1,
        LapTime |-> Td(IF session_type = "Race" THEN 81000 ELSE 80500)],
       [Driver |-> "LEC", Team |-> "Ferrari", LapNumber |-> 2, LapTime |-> Null] >>

\* dict(zip(results['Abbreviation'], results['Position']))
position_map == [d \in {"LEC"} |-> Pos(3)]

race_file == "f1_race_laps.csv"
practice_file == "f1_practice_laps.csv"

race_columns ==
    {"Year", "Track", "Team", "Driver", "LapNumber", "Race Lap Time", "Position", "Session"}

practice_columns(session_type) ==
    {"Year", "Track", "Team", "Driver", "LapNumber", LapCol(session_type), "Session"}

\* Files an earlier run for 2023 has left behind
OldRaceFile ==
    File(race_columns,
         << [c \in race_columns |->
               CASE c = "Year" -> 2023 [] c = "Track" -> "Italian Grand Prix"
                 [] c = "Team" -> "Ferrari" [] c = "Driver" -> "LEC"
                 [] c = "LapNumber" -> 1 [] c = "Race Lap Time" -> Num(85000)
                 [] c = "Position" -> Pos(4) [] c = "Session" -> "Race"] >>)

OldPracticeFile ==
    File(practice_columns("FP1"),
         << [c \in practice_columns("FP1") |->
               CASE c = "Year" -> 2023 [] c = "Track" -> "Italian Grand Prix"
                 [] c = "Team" -> "Ferrari" [] c = "Driver" -> "LEC"
                 [] c = "LapNumber" -> 1 [] c = "FP1 Lap Time" -> Num(84000)
                 [] c = "Session" -> "FP1"] >>)

----------------------------------------------------------------------------
(* F1_API_Data_Collection: the run                                         *)

year == years[yi]
location == schedule[ei]
session_type == sessions_to_collect[si]

GetSession(outcome) ==
    [op |-> "get_session", year |-> year, location |-> location,
     session_type |-> session_type, at |-> <<yi, ei, si>>, outcome |-> outcome]
SleepCall == [op |-> "sleep"]
ScheduleCall(outcome) ==
    [op |-> "get_event_schedule", year |-> year, at |-> <<yi, 0, 0>>, outcome |-> outcome]

\* pd.concat(tables, ignore_index=True): the rows of all tables over the
\* union of their columns, null where a table lacks the column
concat(tables) ==
    LET rows == Flatten(tables)
        cols == UNION {DOMAIN rows[i] : i \in 1..Len(rows)}
    IN  [i \in 1..Len(rows) |-> EnsureColumns(rows[i], cols)]

\* lines 272-309: the table of one session.  For a race, session.results
\* is a table with rows ("rows": Position is mapped from it, lines 289-295),
\* an empty table ("empty": line 281 is false and no Position column is
\* added) or raises ("raises": Position is pd.NA, line 306).
Subset(laps, results) ==
    [i \in 1..Len(laps) |->
        LET base == [Driver |-> laps[i].Driver, Team |-> laps[i].Team,
                     LapNumber |-> laps[i].LapNumber,
                     LapTime |-> convert_lap_time_to_seconds(laps[i].LapTime),
                     Year |-> year, Track |-> location, Session |-> session_type]
        IN  IF session_type = "Race" /\ results # "empty"
            THEN base @@ ("Position" :>
                    IF results = "rows" /\ laps[i].Driver \in DOMAIN position_map
                    THEN position_map[laps[i].Driver] ELSE NaN)
            ELSE base]

\* What session.results does for a race; the other sessions do not read it
ResultsOutcomes == {"rows", "empty", "raises"}

\* The outcome noted in the trace of calls
LapsOutcome(results) ==
    CASE results = "rows" -> "laps"
      [] results = "empty" -> "laps, empty results"
      [] results = "raises" -> "laps, no results"

\* lines 351-372: the table of one session type, or <<>> when it has no row
SessionDf(df, st) ==
    LET session_df == SelectSeq(df, LAMBDA r : r["Session"] = st)
        columns_to_keep == IF st = "Race" THEN race_columns ELSE practice_columns(st)
    IN  [i \in 1..Len(session_df) |->
            Project(EnsureColumns(RenameColumn(session_df[i], "LapTime", LapCol(st)),
                                  columns_to_keep),
                    columns_to_keep)]

TableFile(rows) == File(UNION {DOMAIN rows[i] : i \in 1..Len(rows)}, rows)

CollectInit ==
    /\ years \in YearLists
    /\ sessions_to_collect \in SessionLists
    /\ event_schedule \in [1..Len(years) -> ScheduleResults]
    /\ \A i \in 1..Len(years) : event_schedule[i].raises => event_schedule[i].rows = <<>>
    /\ TotalRows(event_schedule) * Len(sessions_to_collect) <= MaxTriples
    /\ fs \in {[f \in {race_file, practice_file} |-> NoFile],
               [f \in {race_file, practice_file} |->
                   IF f = race_file THEN OldRaceFile ELSE OldPracticeFile]}
    \* the runs over older files are the runs of the one-year list
    /\ fs[race_file].exists => Len(years) = 1
    /\ pc = "year"
    /\ yi = 1
    /\ schedule = <<>>
    /\ ei = 1
    /\ si = 1
    /\ race_success = FALSE
    /\ consecutive_failures = 0
    /\ all_laps = <<>>
    /\ successful_races = {}
    /\ failed_races = {}
    /\ skipped_races = <<>>
    /\ output_file = None
    /\ calls = <<>>

\* for year in years: the list is exhausted
YearsExhausted ==
    /\ pc = "year"
    /\ yi > Len(years)
    /\ pc' = "concat"
    /\ UNCHANGED <<years, sessions_to_collect, yi, schedule, ei, si, race_success,
                   consecutive_failures, all_laps, successful_races, failed_races,
                   skipped_races, event_schedule, output_file, fs, calls>>

\* fastf1.get_event_schedule raises: lines 340-343, then the next year
ScheduleRaises ==
    /\ pc = "year"
    /\ yi <= Len(years)
    /\ event_schedule[yi].raises
    /\ calls' = calls \o <<ScheduleCall("raise"), SleepCall>>
    /\ yi' = yi + 1
    /\ UNCHANGED <<years, sessions_to_collect, pc, schedule, ei, si, race_success,
                   consecutive_failures, all_laps, successful_races, failed_races,
                   skipped_races, event_schedule, output_file, fs>>

\* line 253: the schedule of the year is loaded
ScheduleLoaded ==
    /\ pc = "year"
    /\ yi <= Len(years)
    /\ ~event_schedule[yi].raises
    /\ calls' = Append(calls, ScheduleCall("rows"))
    /\ schedule' = event_schedule[yi].rows
    /\ ei' = 1
    /\ pc' = "event"
    /\ UNCHANGED <<years, sessions_to_collect, yi, si, race_success,
                   consecutive_failures, all_laps, successful_races, failed_races,
                   skipped_races, event_schedule, output_file, fs>>

\* the event loop ends without a break; line 337, then the next year
EventsExhausted ==
    /\ pc = "event"
    /\ ei > Len(schedule)
    /\ IF YearLoopBreak(consecutive_failures)
       THEN pc' = "concat" /\ yi' = yi
       ELSE pc' = "year" /\ yi' = yi + 1
    /\ UNCHANGED <<years, sessions_to_collect, schedule, ei, si, race_success,
                   consecutive_failures, all_laps, successful_races, failed_races,
                   skipped_races, event_schedule, output_file, fs, calls>>

\* lines 255-259: an event outside the year's list
SkipEvent ==
    /\ pc = "event"
    /\ ei <= Len(schedule)
    /\ ~InRaceList(year, location)
    /\ ei' = ei + 1
    /\ UNCHANGED <<years, sessions_to_collect, pc, yi, schedule, si, race_success,
                   consecutive_failures, all_laps, successful_races, failed_races,
                   skipped_races, event_schedule, output_file, fs, calls>>

\* line 261: an event of the year's list
StartEvent ==
    /\ pc = "event"
    /\ ei <= Len(schedule)
    /\ InRaceList(year, location)
    /\ race_success' = FALSE
    /\ si' = 1
    /\ pc' = "session"
    /\ UNCHANGED <<years, sessions_to_collect, yi, schedule, ei,
                   consecutive_failures, all_laps, successful_races, failed_races,
                   skipped_races, event_schedule, output_file, fs, calls>>

\* lines 264-265 raise: lines 316-320
FetchRaises ==
    /\ pc = "session"
    /\ si <= Len(sessions_to_collect)
    /\ skipped_races' = OnFetchError(skipped_races, year, location, session_type,
                                     ErrorMessage)
    /\ calls' = calls \o <<GetSession("raise"), SleepCall>>
    /\ si' = si + 1
    /\ UNCHANGED <<years, sessions_to_collect, pc, yi, schedule, ei, race_success,
                   consecutive_failures, all_laps, successful_races, failed_races,
                   event_schedule, output_file, fs>>

\* lines 267-269: an empty lap table, `continue`
FetchEmpty ==
    /\ pc = "session"
    /\ si <= Len(sessions_to_collect)
    /\ calls' = Append(calls, GetSession("empty"))
    /\ si' = si + 1
    /\ UNCHANGED <<years, sessions_to_collect, pc, yi, schedule, ei, race_success,
                   consecutive_failures, all_laps, successful_races, failed_races,
                   skipped_races, event_schedule, output_file, fs>>

\* lines 272-314 and 319-320: laps collected; for a race the results table
\* is read, which may be empty or fail (lines 279-306)
FetchLaps ==
    /\ pc = "session"
    /\ si <= Len(sessions_to_collect)
    /\ \E results \in (IF session_type = "Race" THEN ResultsOutcomes ELSE {"rows"}) :
          /\ all_laps' = Append(all_laps,
                                Subset(SessionLaps(year, location, session_type), results))
          /\ calls' = calls \o <<GetSession(LapsOutcome(results)), SleepCall>>
    /\ race_success' = TRUE
    /\ consecutive_failures' = 0
    /\ si' = si + 1
    /\ UNCHANGED <<years, sessions_to_collect, pc, yi, schedule, ei,
                   successful_races, failed_races,
                   skipped_races, event_schedule, output_file, fs>>

\* An event loop that files every event under failed_races
RecordFailureAlways(failed, success, race) == failed \cup {race}

\* lines 322-326: failed_races.add(...) in the else branch only
RecordFailure(failed, success, race) == IF success THEN failed ELSE failed \cup {race}

\* lines 322-338: the session loop is over
EndEvent ==
    /\ pc = "session"
    /\ si > Len(sessions_to_collect)
    /\ failed_races' = RecordFailure(failed_races, race_success, <<year, location>>)
    /\ IF race_success
       THEN /\ successful_races' = successful_races \cup {<<year, location>>}
            /\ consecutive_failures' = 0
       ELSE /\ consecutive_failures' = consecutive_failures + 1
            /\ successful_races' = successful_races
    /\ IF EventLoopBreak(consecutive_failures')
       THEN IF YearLoopBreak(consecutive_failures')
            THEN pc' = "concat" /\ yi' = yi /\ ei' = ei
            ELSE pc' = "year" /\ yi' = yi + 1 /\ ei' = ei
       ELSE pc' = "event" /\ yi' = yi /\ ei' = ei + 1
    /\ UNCHANGED <<years, sessions_to_collect, schedule, si, race_success,
                   all_laps, skipped_races, event_schedule, output_file, fs, calls>>

\* lines 345-403: the tables are concatenated, split by session type and saved
Save ==
    /\ pc = "concat"
    /\ pc' = "done"
    /\ IF all_laps # <<>>
       THEN LET df == concat(all_laps)
                session_dfs == [st \in SessionTypes |-> SessionDf(df, st)]
                practice_dfs == << session_dfs["FP1"], session_dfs["FP2"], session_dfs["FP3"] >>
            IN  IF \A st \in SessionTypes : session_dfs[st] = <<>>
                THEN output_file' = None /\ fs' = fs
                ELSE IF "Race" \in SeqToSet(sessions_to_collect)
                     THEN /\ output_file' = race_file
                          /\ fs' = IF session_dfs["Race"] # <<>>
                                   THEN [fs EXCEPT ![race_file] = TableFile(session_dfs["Race"])]
                                   ELSE fs
                     ELSE /\ output_file' = practice_file
                          /\ fs' = IF concat(practice_dfs) # <<>>
                                   THEN [fs EXCEPT ![practice_file] =
                                            TableFile(concat(practice_dfs))]
                                   ELSE fs
       ELSE output_file' = None /\ fs' = fs
    /\ UNCHANGED <<years, sessions_to_collect, yi, schedule, ei, si, race_success,
                   consecutive_failures, all_laps, successful_races, failed_races,
                   skipped_races, event_schedule, calls>>

FIdle == fn = "none" /\ fin = <<>> /\ fout = <<>> /\ fsteps = 0

Init == CollectInit /\ FIdle

Next ==
    \/ YearsExhausted /\ UNCHANGED fvars
    \/ ScheduleRaises /\ UNCHANGED fvars
    \/ ScheduleLoaded /\ UNCHANGED fvars
    \/ EventsExhausted /\ UNCHANGED fvars
    \/ SkipEvent /\ UNCHANGED fvars
    \/ StartEvent /\ UNCHANGED fvars
    \/ FetchRaises /\ UNCHANGED fvars
    \/ FetchEmpty /\ UNCHANGED fvars
    \/ FetchLaps /\ UNCHANGED fvars
    \/ EndEvent /\ UNCHANGED fvars
    \/ Save /\ UNCHANGED fvars

Spec == Init /\ [][Next]_vars

----------------------------------------------------------------------------
(* The pure functions, applied to drawn inputs.  fout is the list of the   *)
(* results of the successive applications.                                 *)

CIdle ==
    /\ years = <<>> /\ sessions_to_collect = <<>> /\ event_schedule = <<>>
    /\ fs = [f \in {race_file, practice_file} |-> NoFile]
    /\ pc = "idle" /\ yi = 1 /\ schedule = <<>> /\ ei = 1 /\ si = 1
    /\ race_success = FALSE /\ consecutive_failures = 0 /\ all_laps = <<>>
    /\ successful_races = {} /\ failed_races = {} /\ skipped_races = <<>>
    /\ output_file = None /\ calls = <<>>

\* ---- convert_lap_time_to_seconds ----

D1(n) == <<Digits[n + 1]>>
D2(n) == <<Digits[(n \div 10) + 1], Digits[(n % 10) + 1]>>
D3(n) == <<Digits[(n \div 100) + 1], Digits[((n \div 10) % 10) + 1], Digits[(n % 10) + 1]>>

\* The texts "H:MM:SS.mmm", "H:MM:SS" and "M:SS.mmm"
TextHMS(h, m, sec, ms) == D1(h) \o <<":">> \o D2(m) \o <<":">> \o D2(sec) \o <<".">> \o D3(ms)
TextHMSWhole(h, m, sec) == D1(h) \o <<":">> \o D2(m) \o <<":">> \o D2(sec)
TextMS(m, sec, ms) == D1(m) \o <<":">> \o D2(sec) \o <<".">> \o D3(ms)

Millis(h, m, sec, ms) == ((h * 60 + m) * 60 + sec) * 1000 + ms

Minutes == {0, 1, 2}
Seconds == {0, 3, 23}
Fractions == {0, 456, 789}

ConvertInputs ==
    {Null, NaN, Str(<<>>), Str(<<"x">>), Str(<<"1", "x">>), Str(<<"1", ":", "0", "2", ":">>)}
    \cup {Str(TextHMS(h, m, sec, ms)) :
            h \in 0..MaxHours, m \in Minutes, sec \in Seconds, ms \in Fractions}
    \cup {Str(TextHMSWhole(h, m, sec)) : h \in 0..MaxHours, m \in Minutes, sec \in Seconds}
    \cup {Str(TextMS(m, sec, ms)) : m \in Minutes, sec \in Seconds, ms \in Fractions}
    \cup {Td(Millis(h, m, sec, ms)) :
            h \in 0..MaxHours, m \in Minutes, sec \in Seconds, ms \in Fractions}
    \cup {Num(Millis(h, m, sec, ms)) :
            h \in 0..MaxHours, m \in Minutes, sec \in Seconds, ms \in Fractions}

ConvertInit == CIdle /\ fn = "convert" /\ fin \in ConvertInputs /\ fout = <<>> /\ fsteps = 0

\* convert_lap_time_to_seconds on the input, then on its own result
ApplyConvert ==
    /\ fn = "convert"
    /\ fsteps < 2
    /\ fout' = Append(fout, convert_lap_time_to_seconds(
                                IF fsteps = 0 THEN fin ELSE fout[fsteps]))
    /\ fsteps' = fsteps + 1
    /\ UNCHANGED <<fn, fin>>
    /\ UNCHANGED cvars

SpecConvert == ConvertInit /\ [][ApplyConvert]_vars

\* ---- standardize_team_names ----

TeamNames ==
    {"Racing Point", "Alfa Romeo", "Alfa Romeo Racing", "Alpha Tauri", "Renault",
     "Aston Martin", "Kick Sauber", "RB", "Alpine", "Ferrari", "Mercedes"}

TeamColumns == UNION {[1..n -> TeamNames] : n \in 1..MaxColumn}

TeamsInit == CIdle /\ fn = "teams" /\ fin \in TeamColumns /\ fout = <<>> /\ fsteps = 0

\* standardize_team_names on the column, then on its own result
ApplyStandardize ==
    /\ fn = "teams"
    /\ fsteps < 2
    /\ fout' = Append(fout, standardize_team_names(IF fsteps = 0 THEN fin ELSE fout[fsteps]))
    /\ fsteps' = fsteps + 1
    /\ UNCHANGED <<fn, fin>>
    /\ UNCHANGED cvars

SpecTeams == TeamsInit /\ [][ApplyStandardize]_vars

\* ---- combine_f1_lap_data ----

Presence == {"absent", "null", "timed"}

\* The long-form table of one session type: per lap number no row, a row
\* without a lap time, or a timed row; with `dup` its first row comes twice,
\* the second time with another lap time.
LongRow(st, lap, time) ==
    LET base == [Year |-> 2024, Track |-> "Italian Grand Prix", Team |-> "Ferrari",
                 Driver |-> "LEC", LapNumber |-> lap, LapTime |-> time, Session |-> st]
    IN  IF st = "Race" THEN base @@ ("Position" :> Pos(3)) ELSE base

LongTable(st, present, dup) ==
    LET all == [lap \in 1..MaxLap |->
                  LongRow(st, lap, IF present[lap] = "timed"
                                   THEN Num(80000 + 100 * lap + (IF st = "Race" THEN 1000 ELSE 0))
                                   ELSE NaN)]
        rows == SelectSeq(all, LAMBDA r : present[r["LapNumber"]] # "absent")
    IN  IF dup /\ rows # <<>>
        THEN Append(rows, [rows[1] EXCEPT !["LapTime"] = Num(99000)])
        ELSE rows

CombineInputs ==
    {<<LongTable("Race", p1, dup), LongTable("FP1", p2, FALSE), LongTable("FP2", p3, FALSE)>> :
        p1 \in [1..MaxLap -> Presence], p2 \in [1..MaxLap -> Presence],
        p3 \in [1..MaxLap -> Presence], dup \in BOOLEAN}

CombineInit == CIdle /\ fn = "combine" /\ fin \in CombineInputs /\ fout = <<>> /\ fsteps = 0

ApplyCombine ==
    /\ fn = "combine"
    /\ fsteps = 0
    /\ fout' = <<combine_f1_lap_data(fin)>>
    /\ fsteps' = 1
    /\ UNCHANGED <<fn, fin>>
    /\ UNCHANGED cvars

SpecCombine == CombineInit /\ [][ApplyCombine]_vars

----------------------------------------------------------------------------
(* Properties of F1_API_Data_Collection                                    *)

\* The get_session calls made so far, and those that raised
Fetches == SelectSeq(calls, LAMBDA c : c.op = "get_session")
RaisedFetches == SelectSeq(Fetches, LAMBDA c : c.outcome = "raise")

\* The rows of the schedule of the y-th year of the list
LoadedRows(y) == IF event_schedule[y].raises THEN <<>> ELSE event_schedule[y].rows

\* The e-th event of the y-th year is in that year's list of f1_races_by_year
Listed(y, e) ==
    /\ years[y] \in 2020..2025
    /\ LoadedRows(y)[e] \in f1_races_by_year[years[y]]

\* All (year, event, session_type) triples of the run, by their indices
Triples ==
    {<<y, e, k>> \in (1..Len(years)) \X (1..Len(Calendar)) \X (1..Len(sessions_to_collect)) :
        e <= Len(LoadedRows(y)) /\ Listed(y, e)}

ListedEvents == {<<t[1], t[2]>> : t \in Triples}

Attempted(t) == \E i \in 1..Len(Fetches) : Fetches[i].at = t

Later(a, b) ==
    \/ a[1] < b[1]
    \/ a[1] = b[1] /\ a[2] < b[2]
    \/ a[1] = b[1] /\ a[2] = b[2] /\ Len(a) = 3 /\ a[3] < b[3]

\* The event at which the run stands
Here == <<yi, ei>>

\* The skip log holds one entry per raised fetch, naming its triple and message
SkipLogMatchesRaisedFetches ==
    /\ Len(skipped_races) = Len(RaisedFetches)
    /\ \A i \in 1..Len(RaisedFetches) :
          skipped_races[i] = [year |-> RaisedFetches[i].year,
                              location |-> RaisedFetches[i].location,
                              session_type |-> RaisedFetches[i].session_type,
                              error |-> ErrorMessage]

\* C1 as stated: at the end of a run the skip log holds exactly one entry per
\* fetch that raised, naming its triple and the error message, and every
\* triple that comes after a fetch that raised has been attempted: the other
\* session types of the event and all the following events.
C1_RunGoesOnAfterError ==
    pc = "done" =>
        /\ SkipLogMatchesRaisedFetches
        /\ \A i \in 1..Len(RaisedFetches) : \A t \in Triples :
              Later(RaisedFetches[i].at, t) => Attempted(t)

\* C1 amended: one skip-log entry per fetch that raised, and every triple after
\* a fetch that raised has been attempted, up to and including the event at
\* which the three-failure breaker trips; when it does not trip, all of them.
C1_RunGoesOnUntilBreaker ==
    pc = "done" =>
        /\ SkipLogMatchesRaisedFetches
        /\ \A i \in 1..Len(RaisedFetches) : \A t \in Triples :
              /\ Later(RaisedFetches[i].at, t)
              /\ (consecutive_failures < 3 \/ ~Later(Here, <<t[1], t[2]>>))
              => Attempted(t)

\* A fetch raised on the first session type of an event, the second session
\* type of the event and the next event were still attempted
C1_Witness ==
    /\ pc = "done"
    /\ \E i \in 1..Len(RaisedFetches) :
          LET at == RaisedFetches[i].at
          IN  /\ at[3] = 1
              /\ Attempted(<<at[1], at[2], 2>>)
              /\ Attempted(<<at[1], at[2] + 1, 1>>)

\* No session of the event yielded lap data
NoLaps(ev) ==
    ~\E i \in 1..Len(Fetches) :
        /\ <<Fetches[i].at[1], Fetches[i].at[2]>> = ev
        /\ Fetches[i].outcome \in {"laps", "laps, empty results", "laps, no results"}

\* b is the listed event that follows the listed event a
NextListed(a, b) ==
    /\ Later(a, b)
    /\ ~\E c \in ListedEvents : Later(a, c) /\ Later(c, b)

\* C2: once consecutive_failures has reached 3 the loops are left, and at the
\* end of a run no session was fetched for any event after three listed
\* events in a row that each ended without lap data.
C2_NoFetchAfterThreeFailures ==
    /\ consecutive_failures >= 3 => pc \in {"concat", "done"}
    /\ pc = "done" =>
          \A a \in ListedEvents : \A b \in ListedEvents : \A c \in ListedEvents :
              /\ NextListed(a, b) /\ NextListed(b, c)
              /\ NoLaps(a) /\ NoLaps(b) /\ NoLaps(c)
              => \A i \in 1..Len(Fetches) :
                    ~Later(c, <<Fetches[i].at[1], Fetches[i].at[2]>>)

\* The breaker has tripped with a listed event of the year still to come
C2_Witness ==
    /\ pc = "done"
    /\ consecutive_failures >= 3
    /\ \E e \in (ei + 1)..Len(schedule) : <<yi, e>> \in ListedEvents

\* C3 as stated: when the breaker has tripped in one year, the listed events
\* of the years that follow it in the list have been collected at the end.
C3_LaterYearsStillCollected ==
    pc = "done" /\ consecutive_failures >= 3 =>
        \A t \in Triples : t[1] > yi => Attempted(t)

\* C3 amended: once the breaker has tripped, no further external call is
\* made: neither the remaining events of the year nor any later year is
\* fetched.
C3_BreakerEndsTheRun ==
    [][consecutive_failures >= 3 => calls' = calls]_vars

\* The breaker has tripped in a year that is followed by a year with a
\* listed event
C3_Witness ==
    /\ pc = "done"
    /\ consecutive_failures >= 3
    /\ \E t \in Triples : t[1] > yi

\* The session fetches and the sleeps, in order
FetchesAndSleeps == SelectSeq(calls, LAMBDA c : c.op \in {"get_session", "sleep"})

\* C4: between any two consecutive session fetches there is a sleep.
C4_SleepBetweenFetches ==
    \A i \in 1..(Len(FetchesAndSleeps) - 1) :
        ~(FetchesAndSleeps[i].op = "get_session" /\ FetchesAndSleeps[i + 1].op = "get_session")

\* Every session type of the current event was fetched and returned an empty
\* lap table
AllSessionsEmpty ==
    \A k \in 1..Len(sessions_to_collect) :
        \E i \in 1..Len(Fetches) :
            Fetches[i].at = <<yi, ei, k>> /\ Fetches[i].outcome = "empty"

\* C5: when the session loop of an event ends and every session of the event
\* returned an empty lap table, the event is not added to failed_races and
\* consecutive_failures does not grow.
C5_EmptyEventIsNotAFailure ==
    [][pc = "session" /\ si > Len(sessions_to_collect) /\ AllSessionsEmpty
         => failed_races' = failed_races /\ consecutive_failures' = consecutive_failures]_vars

\* The current event is outside the list of its year, or its year has no list
Unlisted(y, name) == y \notin 2020..2025 \/ name \notin f1_races_by_year[y]

\* C6: no session of an unlisted event is ever fetched, no unlisted event is
\* in successful_races or failed_races, and the step that meets an unlisted
\* event only moves on to the next event: calls, successful_races,
\* failed_races, consecutive_failures and all_laps are unchanged.
C6_UnlistedEventSkipped ==
    /\ [](/\ \A i \in 1..Len(Fetches) : ~Unlisted(Fetches[i].year, Fetches[i].location)
          /\ \A r \in successful_races \cup failed_races : ~Unlisted(r[1], r[2]))
    /\ [][pc = "event" /\ ei <= Len(schedule) /\ Unlisted(years[yi], schedule[ei])
            => /\ pc' = "event" /\ ei' = ei + 1
               /\ calls' = calls
               /\ successful_races' = successful_races
               /\ failed_races' = failed_races
               /\ consecutive_failures' = consecutive_failures
               /\ all_laps' = all_laps]_vars

\* An unlisted event has just been skipped after an event that failed, and a
\* listed event is fetched next
C6_Witness ==
    /\ pc = "session"
    /\ ei > 1
    /\ Unlisted(years[yi], schedule[ei - 1])
    /\ consecutive_failures > 0

\* The identity key of a row of an output file
FileKey(row) ==
    <<row["Year"], row["Track"], row["Session"], row["Team"], row["Driver"], row["LapNumber"]>>

FileKeys(file) == {FileKey(file.rows[i]) : i \in 1..Len(file.rows)}

\* C7: when the run writes an output file that already exists, the file
\* afterwards holds every key it held before, and every key once.
C7_AppendThenDeduplicate ==
    [][\A f \in {race_file, practice_file} :
          fs[f].exists /\ fs'[f] # fs[f]
          => /\ FileKeys(fs[f]) \subseteq FileKeys(fs'[f])
             /\ Cardinality(FileKeys(fs'[f])) = Len(fs'[f].rows)]_vars

----------------------------------------------------------------------------
(* Properties of combine_f1_lap_data                                       *)

TableKeys(rows) == {KeyOf(rows[i]) : i \in 1..Len(rows)}

\* The input tables are non-empty and none holds a key twice (their session
\* types are distinct by construction)
CombinePrecondition ==
    \A n \in 1..Len(fin) :
        fin[n] # <<>> /\ Cardinality(TableKeys(fin[n])) = Len(fin[n])

\* The output has exactly the union of the input keys, each key in one row
KeyCoverage ==
    /\ ~fout[1].none
    /\ TableKeys(fout[1].rows) = UNION {TableKeys(fin[n]) : n \in 1..Len(fin)}
    /\ Cardinality(TableKeys(fout[1].rows)) = Len(fout[1].rows)

\* C8 as stated: the output has exactly the union of the input keys, each key
\* in one row, and a session's lap-time column is null in a row exactly when
\* the session's input table has no row for the key.
C8_NullExactlyWhenNoRow ==
    fn = "combine" /\ fsteps = 1 /\ CombinePrecondition =>
        /\ KeyCoverage
        /\ \A i \in 1..Len(fout[1].rows) : \A n \in 1..Len(fin) :
              isna(fout[1].rows[i][LapCol(fin[n][1]["Session"])])
              <=> KeyOf(fout[1].rows[i]) \notin TableKeys(fin[n])

\* C8 amended: the output has exactly the union of the input keys, each key
\* in one row; a session's lap-time column holds the lap time of the session's
\* input row for the key (null when that lap time is null), and is null when
\* the session's input table has no row for the key.
C8_KeyCoverage ==
    fn = "combine" /\ fsteps = 1 /\ CombinePrecondition =>
        /\ KeyCoverage
        /\ \A i \in 1..Len(fout[1].rows) : \A n \in 1..Len(fin) :
              LET col == LapCol(fin[n][1]["Session"])
                  key == KeyOf(fout[1].rows[i])
              IN  IF key \in TableKeys(fin[n])
                  THEN \E j \in 1..Len(fin[n]) :
                          /\ KeyOf(fin[n][j]) = key
                          /\ fout[1].rows[i][col] = fin[n][j]["LapTime"]
                  ELSE isna(fout[1].rows[i][col])

\* Three tables whose key sets differ have been merged: a lap only in the race
\* table, one only in FP1, and FP2 with a row without a lap time
C8_Witness ==
    /\ fn = "combine" /\ fsteps = 1 /\ CombinePrecondition
    /\ TableKeys(fin[1]) # TableKeys(fin[2])
    /\ TableKeys(fin[1]) \ TableKeys(fin[2]) # {}
    /\ TableKeys(fin[2]) \ TableKeys(fin[1]) # {}
    /\ \E j \in 1..Len(fin[3]) : isna(fin[3][j]["LapTime"])
    /\ Len(fout[1].rows) = MaxLap

----------------------------------------------------------------------------
(* Properties of convert_lap_time_to_seconds                               *)

\* C9: a value that is numeric seconds is returned unchanged, and the result
\* of converting a parsable lap time is unchanged by converting it again.
C9_ConvertIdempotent ==
    fn = "convert" =>
        /\ fsteps >= 1 /\ fin.tag = "num" => fout[1] = fin
        /\ fsteps = 2 /\ fout[1].tag = "num" => fout[2] = fout[1]

----------------------------------------------------------------------------
(* Properties of standardize_team_names                                    *)

\* C10: applying the normalizer twice gives the column that applying it once
\* gives; a name outside the rename table is returned unchanged and
\* 'Racing Point' becomes 'Aston Martin'.
C10_StandardizeIdempotent ==
    fn = "teams" =>
        /\ fsteps = 2 => fout[2] = fout[1]
        /\ fsteps >= 1 =>
              \A i \in 1..Len(fin) :
                  /\ fin[i] \notin {"Racing Point", "Alfa Romeo", "Alfa Romeo Racing",
                                    "Alpha Tauri", "Renault"}
                     => fout[1][i] = fin[i]
                  /\ fin[i] = "Racing Point" => fout[1][i] = "Aston Martin"

\* The normalizer has been applied twice to a column that holds a historical
\* name next to a current one
C10_Witness ==
    /\ fn = "teams" /\ fsteps = 2
    /\ \E i \in 1..Len(fin) : fin[i] = "Racing Point"
    /\ \E i \in 1..Len(fin) : fin[i] \in {"Aston Martin", "Ferrari"}

----------------------------------------------------------------------------
(* More properties of F1_API_Data_Collection                               *)

\* C15: when the run returns a file name, that file exists and holds every
\* lap record collected into all_laps.
C15_OutputFileHoldsAllLaps ==
    pc = "done" /\ output_file # None =>
        /\ fs[output_file].exists
        /\ \A n \in 1..Len(all_laps) : \A i \in 1..Len(all_laps[n]) :
              FileKey(all_laps[n][i]) \in FileKeys(fs[output_file])

\* An attempted event: at least one of its sessions was fetched
AttemptedEvent(ev) ==
    \E i \in 1..Len(Fetches) : <<Fetches[i].at[1], Fetches[i].at[2]>> = ev

RaceName(ev) == <<years[ev[1]], LoadedRows(ev[1])[ev[2]]>>

\* The two sets are disjoint, and every attempted listed event is in
\* successful_races if a session of it yielded laps and in failed_races if none did
EventsFiledOnce ==
    /\ successful_races \cap failed_races = {}
    /\ \A ev \in ListedEvents :
          AttemptedEvent(ev) =>
              IF NoLaps(ev)
              THEN RaceName(ev) \in failed_races /\ RaceName(ev) \notin successful_races
              ELSE RaceName(ev) \in successful_races /\ RaceName(ev) \notin failed_races

\* C17 as stated: at the end of every run the sets are disjoint and every
\* attempted listed event is in exactly one of them, successful_races if and
\* only if one of its sessions yielded laps.
C17_EventsInExactlyOneSet ==
    pc = "done" => EventsFiledOnce

DistinctYears == \A i \in 1..Len(years) : \A j \in 1..Len(years) : years[i] = years[j] => i = j

\* C17 amended: the same, at the end of every run whose years list names no
\* year twice.
C17_EventsInOneSetDistinctYears ==
    pc = "done" /\ DistinctYears => EventsFiledOnce

\* A run over distinct years has ended with an event in each set
C17_Witness ==
    /\ pc = "done" /\ DistinctYears
    /\ successful_races # {} /\ failed_races # {}


----------------------------------------------------------------------------
(* The file pipeline: combine_practice_and_race_times,                     *)
(* combine_lap_data_files and aggregate_median_lap_times.  Paths are kept  *)
(* without their leading "./".  fs maps every path to what is there, calls *)
(* lists the operations made with the files they were given, fn names the *)
(* last operation and fout holds what it returned.                         *)

consumed_data_dir == "ConsumedData"
aggregate_file == "f1_lapData_2020-2025.csv"
combined_laptimes == "combined_laptimes.csv"
consumed_race_file == "ConsumedData/f1_race_laps.csv"
consumed_practice_file == "ConsumedData/f1_practice_laps.csv"

Directory == [exists |-> TRUE, dir |-> TRUE]

DataFiles == {race_file, practice_file, aggregate_file, combined_laptimes,
              consumed_race_file, consumed_practice_file}
Paths == DataFiles \cup {consumed_data_dir}

\* pd.read_csv gives a text column the dtype object
IsObject(rows, col) == \E i \in 1..Len(rows) : rows[i][col].tag = "str"

Columns(rows) == UNION {DOMAIN rows[i] : i \in 1..Len(rows)}

\* df[col] = values
SetColumn(rows, col, values) ==
    [i \in 1..Len(rows) |->
        [c \in DOMAIN rows[i] \cup {col} |-> IF c = col THEN values[i] ELSE rows[i][c]]]

\* standardize_team_names on a table
StandardizeTable(rows) ==
    SetColumn(rows, "Team", standardize_team_names([i \in 1..Len(rows) |-> rows[i]["Team"]]))

\* if df[col].dtype == 'object': df[col] = convert_lap_times_column(df, col)
ConvertIfObject(rows, col) ==
    IF IsObject(rows, col) THEN SetColumn(rows, col, convert_lap_times_column(rows, col))
    ELSE rows

RECURSIVE ConvertColumns(_, _)
ConvertColumns(rows, cols) ==
    IF cols = {} THEN rows
    ELSE LET c == CHOOSE x \in cols : TRUE
         IN  ConvertColumns(ConvertIfObject(rows, c), cols \ {c})

LapTimeColumns == {LapCol(st) : st \in SessionTypes}

\* The order of the texts of the key columns
NameOrder ==
    <<"Alfa Romeo", "Bahrain Grand Prix", "Ferrari", "Italian Grand Prix", "Kick Sauber",
      "LEC", "Miami Grand Prix", "Monza", "SAI">>
Rank(name) == CHOOSE i \in 1..Len(NameOrder) : NameOrder[i] = name

\* Order of two tuples of key values; IsText tells which positions hold text
RECURSIVE TupleLess(_, _, _)
TupleLess(a, b, IsText) ==
    IF a = <<>> THEN FALSE
    ELSE LET x == IF Head(IsText) THEN Rank(Head(a)) ELSE Head(a)
             y == IF Head(IsText) THEN Rank(Head(b)) ELSE Head(b)
         IN  x < y \/ (x = y /\ TupleLess(Tail(a), Tail(b), Tail(IsText)))

RECURSIVE SortKeys(_, _)
SortKeys(keys, IsText) ==
    IF keys = {} THEN <<>>
    ELSE LET least == CHOOSE k \in keys : \A o \in keys \ {k} : TupleLess(k, o, IsText)
         IN  <<least>> \o SortKeys(keys \ {least}, IsText)

TextColumn(col) == col \in {"Track", "Team", "Driver"}

KeyTuple(row, by) == [i \in 1..Len(by) |-> row[by[i]]]

\* The groups of df.groupby(by), in the sorted order of their keys
GroupKeys(rows, by) ==
    SortKeys({KeyTuple(rows[i], by) : i \in 1..Len(rows)},
             [i \in 1..Len(by) |-> TextColumn(by[i])])

GroupRows(rows, by, key) == SelectSeq(rows, LAMBDA r : KeyTuple(r, by) = key)

\* GroupBy 'first': the first value of the column that is not null
first(rows, col) ==
    LET idx == {i \in 1..Len(rows) : ~isna(rows[i][col])}
    IN  IF idx = {} THEN NaN
        ELSE rows[CHOOSE i \in idx : \A j \in idx : i <= j][col]

\* What the missing-file checks of lines 537-546 and 765-770 do with the
\* file that is there: it is moved
OnMissingFileMoves(files) ==
    [fs |-> [f \in Paths |->
                IF f \in {race_file, practice_file} THEN NoFile
                ELSE IF f = consumed_race_file /\ files[race_file].exists THEN files[race_file]
                ELSE IF f = consumed_practice_file /\ files[practice_file].exists
                     THEN files[practice_file]
                ELSE files[f]],
     ret |-> None]

\* lines 537-546, 765-770: a message, and return None
OnMissingFile(files) == [fs |-> files, ret |-> None]

\* lines 527-530
makedirs(files) ==
    IF files[consumed_data_dir].exists THEN files
    ELSE [files EXCEPT ![consumed_data_dir] = Directory]

\* lines 572-573: shutil.move of both input files
MoveInputs(files) ==
    [files EXCEPT ![consumed_race_file] = files[race_file],
                  ![consumed_practice_file] = files[practice_file],
                  ![race_file] = NoFile,
                  ![practice_file] = NoFile]

agg_columns == LapTimeColumns \cup {"Position"}

\* lines 589-610: one row per group, the columns in final_columns
GroupFirst(merged_df) ==
    LET keys == GroupKeys(merged_df, KeyColumns)
    IN  [g \in 1..Len(keys) |->
            LET group == GroupRows(merged_df, KeyColumns, keys[g])
            IN  [c \in SeqToSet(final_columns) |->
                    IF c \in agg_columns THEN first(group, c) ELSE group[1][c]]]

\* The function: the files afterwards and the value returned
combine_practice_and_race_times(files0) ==
    LET files == makedirs(files0)
    IN  IF ~files[race_file].exists \/ ~files[practice_file].exists
        THEN OnMissingFile(files)
        ELSE LET race_df == StandardizeTable(files[race_file].rows)
                 practice_df == StandardizeTable(files[practice_file].rows)
                 moved == MoveInputs(files)
                 merged_df == ConvertColumns(concat(<<race_df, practice_df>>),
                                             Columns(concat(<<race_df, practice_df>>))
                                                 \cap LapTimeColumns)
             IN  \* .agg raises KeyError for a column merged_df lacks
                 IF ~(agg_columns \subseteq Columns(merged_df))
                 THEN [fs |-> moved, ret |-> None]
                 ELSE [fs |-> [moved EXCEPT ![aggregate_file] =
                                  File(SeqToSet(final_columns), GroupFirst(merged_df))],
                       ret |-> aggregate_file]

\* ---- aggregate_median_lap_times ----

time_columns == <<"FP1 Lap Time", "FP2 Lap Time", "FP3 Lap Time", "Race Lap Time">>
group_columns == <<"Year", "Track", "Team", "Driver">>

RECURSIVE SumMs(_)
SumMs(cells) == IF cells = <<>> THEN 0 ELSE Head(cells).ms + SumMs(Tail(cells))

\* A mean that is null as soon as one value of the group is null
mean_of_all(cells) ==
    IF cells = <<>> \/ \E i \in 1..Len(cells) : isna(cells[i]) THEN NaN
    ELSE [tag |-> "mean", sum |-> SumMs(cells), count |-> Len(cells)]

\* GroupBy.mean of line 711: the nulls are skipped; the mean is kept as the
\* sum (in ms) and the count of the values that are left
mean(cells) ==
    LET valid == SelectSeq(cells, LAMBDA v : ~isna(v))
    IN  IF valid = <<>> THEN NaN
        ELSE [tag |-> "mean", sum |-> SumMs(valid), count |-> Len(valid)]

\* The mean is half-way between two whole milliseconds
IsTie(v) == ~isna(v) /\ 2 * (v.sum % v.count) = v.count

\* Series.round(3) of lines 724-726: the nearest whole millisecond.  The
\* code averages doubles, and the double mean of a half-way case lies just
\* below, on or just above the half-way point (60.031 and 60.032 give
\* 60.031499999999994, 60.034 and 60.039 give 60.036500000000004): either
\* neighbour can come out, and `up` tells which.
round(v, up) ==
    IF isna(v) THEN NaN
    ELSE LET q == v.sum \div v.count
             r == v.sum % v.count
         IN  IF 2 * r < v.count THEN Num(q)
             ELSE IF 2 * r > v.count THEN Num(q + 1)
             ELSE IF up THEN Num(q + 1) ELSE Num(q)

ColumnOf(rows, col) == [i \in 1..Len(rows) |-> rows[i][col]]

\* read_csv and the groupby find the file and the columns they need; the
\* except clause returns None otherwise
Aggregable(files, input_file) ==
    /\ files[input_file].exists
    /\ SeqToSet(group_columns) \cup SeqToSet(time_columns) \subseteq files[input_file].cols

\* lines 694-704: the table read, its text lap-time columns converted
AggregateFrame(files, input_file) ==
    ConvertColumns(files[input_file].rows,
                   files[input_file].cols \cap SeqToSet(time_columns))

\* The (group, column) pairs whose mean is a half-way case
TieCells(files, input_file) ==
    IF ~Aggregable(files, input_file) THEN {}
    ELSE LET df == AggregateFrame(files, input_file)
             keys == GroupKeys(df, group_columns)
         IN  {cell \in SeqToSet(keys) \X SeqToSet(time_columns) :
                 IsTie(mean(ColumnOf(GroupRows(df, group_columns, cell[1]), cell[2])))}

\* The function: the table returned, NoTable for the None of the except
\* clause; `up` is the set of the half-way cases that round upwards
aggregate_median_lap_times(files, input_file, up) ==
    IF ~Aggregable(files, input_file) THEN NoTable
    ELSE LET cols == files[input_file].cols
             df == AggregateFrame(files, input_file)
             keys == GroupKeys(df, group_columns)
             out == SeqToSet(group_columns) \cup SeqToSet(time_columns)
                       \cup (cols \cap {"Position"})
         IN  Table([g \in 1..Len(keys) |->
               LET group == GroupRows(df, group_columns, keys[g])
               IN  [c \in out |->
                       IF c \in SeqToSet(time_columns)
                       THEN round(mean(ColumnOf(group, c)), <<keys[g], c>> \in up)
                       ELSE IF c = "Position" THEN first(group, c)
                       ELSE group[1][c]]])

\* ---- combine_lap_data_files ----

merge_columns == <<"Year", "Track", "Driver", "LapNumber">>

\* The columns whose cells are never missing in the files of the model
CellIsNa(col, v) ==
    IF col \in {"Year", "Track", "Team", "Driver", "LapNumber", "Session"} THEN FALSE
    ELSE isna(v)

\* lines 790-824 for one pair of matching rows (hasL, hasR: the side has a
\* row): a column of both tables takes the race value, or the practice
\* value where the race value is null (combine_first)
MergedRow(key, l, r, hasL, hasR, lcols, rcols) ==
    [c \in SeqToSet(final_columns) |->
        IF c \in SeqToSet(merge_columns)
        THEN key[CHOOSE i \in 1..Len(merge_columns) : merge_columns[i] = c]
        ELSE IF c \in lcols /\ hasL /\ (c \notin rcols \/ ~hasR \/ ~CellIsNa(c, l[c]))
             THEN l[c]
        ELSE IF c \in rcols /\ hasR THEN r[c]
        ELSE NaN]

\* pd.merge(race_df, practice_df, on=merge_columns, how='outer')
merge_outer(race_df, practice_df) ==
    LET keys == SortKeys({KeyTuple(race_df[i], merge_columns) : i \in 1..Len(race_df)}
                            \cup {KeyTuple(practice_df[i], merge_columns) :
                                     i \in 1..Len(practice_df)},
                         [i \in 1..Len(merge_columns) |-> TextColumn(merge_columns[i])])
        lcols == Columns(race_df)
        rcols == Columns(practice_df)
    IN  Flatten([k \in 1..Len(keys) |->
            LET L == GroupRows(race_df, merge_columns, keys[k])
                R == GroupRows(practice_df, merge_columns, keys[k])
            IN  IF L = <<>>
                THEN [j \in 1..Len(R) |-> MergedRow(keys[k], R[j], R[j], FALSE, TRUE, lcols, rcols)]
                ELSE IF R = <<>>
                THEN [i \in 1..Len(L) |-> MergedRow(keys[k], L[i], L[i], TRUE, FALSE, lcols, rcols)]
                ELSE Flatten([i \in 1..Len(L) |->
                        [j \in 1..Len(R) |-> MergedRow(keys[k], L[i], R[j], TRUE, TRUE, lcols, rcols)]])])

\* The function: the files afterwards and the value returned
combine_lap_data_files(files, race, practice, output) ==
    IF ~files[race].exists \/ ~files[practice].exists
    THEN OnMissingFile(files)
    ELSE LET race_df == StandardizeTable(files[race].rows)
             practice_df == StandardizeTable(files[practice].rows)
             lap_time_columns == files[race].cols \cap LapTimeColumns
         IN  \* line 786: practice_df[col] raises KeyError for a column it lacks
             IF ~(lap_time_columns \subseteq files[practice].cols)
             THEN [fs |-> files, ret |-> None]
             ELSE [fs |-> [files EXCEPT ![output] =
                              File(SeqToSet(final_columns),
                                   merge_outer(ConvertColumns(race_df, lap_time_columns),
                                               ConvertColumns(practice_df, lap_time_columns)))],
                   ret |-> output]

\* ---- the operations on drawn files ----

\* At most this many operations in one behaviour
MaxOps == 2

\* Lap i of a driver in a session, as a number of seconds, as the text
\* "H:MM:SS.mmm", as the text "M:SS.mmm", or missing
LapMs(session, i) == (IF session = "Race" THEN 81000 ELSE 80500) + 4 * (i - 1)
LapCell(fmt, ms) ==
    CASE fmt = "seconds" -> Num(ms)
      [] fmt = "h:mm:ss" -> Str(TextHMS(0, ms \div 60000, (ms % 60000) \div 1000, ms % 1000))
      [] fmt = "m:ss" -> Str(TextMS(ms \div 60000, (ms % 60000) \div 1000, ms % 1000))

Formats == {"seconds", "h:mm:ss", "m:ss"}

\* The rows the collector writes for n laps of one session (lines 357-371)
LapRows(session, team, fmt, n) ==
    [i \in 1..n |->
        [c \in (IF session = "Race" THEN race_columns ELSE practice_columns(session)) |->
            CASE c = "Year" -> 2024 [] c = "Track" -> "Monza"
              [] c = "Team" -> team [] c = "Driver" -> "LEC"
              [] c = "LapNumber" -> i [] c = "Position" -> Pos(3)
              [] c = "Session" -> session
              [] OTHER -> LapCell(fmt, LapMs(session, i))]]

Teams == {"Ferrari", "Alfa Romeo"}
LapCounts == {1, MaxLap}

\* One lap in every format and for every team, more laps in seconds
RaceFiles ==
    {TableFile(LapRows("Race", team, fmt, 1)) : team \in Teams, fmt \in Formats}
    \cup {TableFile(LapRows("Race", "Ferrari", "seconds", n)) : n \in LapCounts}

PracticeSessions == {<<"FP1">>, <<"FP2">>, <<"FP1", "FP2", "FP3">>}

\* lines 390-392: the practice file holds the tables of its sessions, concatenated
PracticeFiles ==
    {TableFile(concat([s \in 1..Len(ss) |-> LapRows(ss[s], "Ferrari", fmt, 1)])) :
        ss \in PracticeSessions, fmt \in {"seconds", "m:ss"}}
    \cup {TableFile(concat([s \in 1..Len(ss) |-> LapRows(ss[s], "Ferrari", "seconds", n)])) :
        ss \in PracticeSessions, n \in LapCounts}

\* An aggregate file an earlier run has left behind
OldAggregateFile ==
    File(SeqToSet(final_columns),
         << [c \in SeqToSet(final_columns) |->
               CASE c = "Year" -> 2023 [] c = "Track" -> "Italian Grand Prix"
                 [] c = "Team" -> "Ferrari" [] c = "Driver" -> "LEC"
                 [] c = "LapNumber" -> 1 [] c = "Race Lap Time" -> Num(85000)
                 [] c = "FP1 Lap Time" -> Num(84000)
                 [] c = "Position" -> Pos(4) [] OTHER -> NaN] >>)

\* The collector is not running
CollectorIdle ==
    /\ years = <<>> /\ sessions_to_collect = <<>> /\ event_schedule = <<>>
    /\ pc = "idle" /\ yi = 1 /\ schedule = <<>> /\ ei = 1 /\ si = 1
    /\ race_success = FALSE /\ consecutive_failures = 0 /\ all_laps = <<>>
    /\ successful_races = {} /\ failed_races = {} /\ skipped_races = <<>>
    /\ output_file = None

idle_vars == <<years, sessions_to_collect, pc, yi, schedule, ei, si, race_success,
               consecutive_failures, all_laps, successful_races, failed_races,
               skipped_races, event_schedule, output_file>>

PipelineInit ==
    /\ CollectorIdle
    /\ \E race \in RaceFiles \cup {NoFile}, practice \in PracticeFiles \cup {NoFile},
          old \in {NoFile, OldAggregateFile}, dir \in {NoFile, Directory} :
          fs = [f \in Paths |->
                  CASE f = race_file -> race
                    [] f = practice_file -> practice
                    [] f = aggregate_file -> old
                    [] f = consumed_data_dir -> dir
                    [] OTHER -> NoFile]
    /\ calls = <<>>
    /\ fn = "none" /\ fin = <<>> /\ fout = <<>> /\ fsteps = 0

\* The call made, with the input files as they were
FileCall(op, args, race, practice) ==
    [op |-> op, args |-> args, race |-> race, practice |-> practice]

CombinePracticeAndRaceTimes ==
    /\ fsteps < MaxOps
    /\ LET r == combine_practice_and_race_times(fs)
       IN  /\ fs' = r.fs
           /\ fout' = [ret |-> r.ret]
    /\ fn' = "combine_practice_and_race_times"
    /\ fin' = <<>>
    /\ fsteps' = fsteps + 1
    /\ calls' = Append(calls, FileCall("combine_practice_and_race_times", <<>>,
                                       fs[race_file], fs[practice_file]))
    /\ UNCHANGED idle_vars

\* The arguments of combine_lap_data_files: the defaults, or one file twice
CombineArguments ==
    {<<race_file, practice_file, combined_laptimes>>,
     <<race_file, race_file, combined_laptimes>>,
     <<practice_file, practice_file, combined_laptimes>>}

CombineLapDataFiles ==
    /\ fsteps < MaxOps
    /\ \E args \in CombineArguments :
          LET r == combine_lap_data_files(fs, args[1], args[2], args[3])
          IN  /\ fs' = r.fs
              /\ fout' = [ret |-> r.ret]
              /\ fin' = args
              /\ calls' = Append(calls, FileCall("combine_lap_data_files", args,
                                                 fs[args[1]], fs[args[2]]))
    /\ fn' = "combine_lap_data_files"
    /\ fsteps' = fsteps + 1
    /\ UNCHANGED idle_vars

AggregateMedianLapTimes ==
    /\ fsteps < MaxOps
    /\ \E input_file \in {aggregate_file, race_file, combined_laptimes} :
       \E up \in SUBSET TieCells(fs, input_file) :
          /\ fout' = aggregate_median_lap_times(fs, input_file, up)
          /\ fin' = <<input_file>>
          /\ calls' = Append(calls, FileCall("aggregate_median_lap_times", <<input_file>>,
                                             fs[input_file], fs[input_file]))
    /\ fn' = "aggregate_median_lap_times"
    /\ fsteps' = fsteps + 1
    /\ UNCHANGED fs
    /\ UNCHANGED idle_vars

PipelineNext ==
    \/ CombinePracticeAndRaceTimes
    \/ CombineLapDataFiles
    \/ AggregateMedianLapTimes

SpecPipeline == PipelineInit /\ [][PipelineNext]_vars

----------------------------------------------------------------------------
(* Properties of the file pipeline                                         *)

\* C11: an operation given a missing input file returns None and changes no
\* data file: the two combine operations with the race or the practice file
\* absent leave every data file as it was and return None, and
\* aggregate_median_lap_times on an absent file returns None.
C11_MissingInputReturnsNone ==
    [][/\ (/\ fn' = "combine_practice_and_race_times"
           /\ (~fs[race_file].exists \/ ~fs[practice_file].exists))
          => (fout'.ret = None /\ \A f \in DataFiles : fs'[f] = fs[f])
       /\ (/\ fn' = "combine_lap_data_files"
           /\ (~fs[fin'[1]].exists \/ ~fs[fin'[2]].exists))
          => (fout'.ret = None /\ \A f \in DataFiles : fs'[f] = fs[f])
       /\ (/\ fn' = "aggregate_median_lap_times"
           /\ ~fs[fin'[1]].exists)
          => (fout'.none /\ \A f \in DataFiles : fs'[f] = fs[f])]_vars

\* A combine was asked with the race file there and the practice file
\* missing: None came back and the race file is where it was
C11_Witness ==
    /\ fsteps = 1
    /\ fn \in {"combine_practice_and_race_times", "combine_lap_data_files"}
    /\ calls[1].race.exists /\ ~calls[1].practice.exists
    /\ fout.ret = None
    /\ fs[race_file] = calls[1].race

\* One record in each file, of the same (year, track, team, driver, lap),
\* the practice file of one practice session type, the lap times in seconds
OneRecordEach(race, practice) ==
    /\ race.exists /\ practice.exists
    /\ Len(race.rows) = 1 /\ Len(practice.rows) = 1
    /\ KeyOf(race.rows[1]) = KeyOf(practice.rows[1])
    /\ practice.rows[1]["Session"] \in {"FP1", "FP2", "FP3"}
    /\ race.rows[1]["Race Lap Time"].tag = "num"
    /\ practice.rows[1][LapCol(practice.rows[1]["Session"])].tag = "num"

\* C13: after combine_practice_and_race_times on a race file and a practice
\* file of one record each, aggregate_median_lap_times on the aggregate file
\* returns exactly one row, with the practice lap time, the race lap time and
\* the race position of the two records.
C13_EndToEndOneRow ==
    (/\ fsteps = 2
     /\ calls[1].op = "combine_practice_and_race_times"
     /\ calls[2].op = "aggregate_median_lap_times"
     /\ calls[2].args = <<aggregate_file>>
     /\ OneRecordEach(calls[1].race, calls[1].practice))
    => (/\ ~fout.none
        /\ Len(fout.rows) = 1
        /\ LET race == calls[1].race.rows[1]
               practice == calls[1].practice.rows[1]
               col == LapCol(practice["Session"])
               row == fout.rows[1]
           IN  /\ \A i \in 1..Len(group_columns) :
                     row[group_columns[i]] = ReplaceValue(race[group_columns[i]])
               /\ row[col] = practice[col]
               /\ row["Race Lap Time"] = race["Race Lap Time"]
               /\ row["Position"] = race["Position"])

\* C16: whenever combine_practice_and_race_times returns None, the race file
\* and the practice file are where they were and ConsumedData holds what it
\* held; the files are moved only when the aggregate file is written and its
\* path returned.
C16_AllOrNothing ==
    [][fn' = "combine_practice_and_race_times" /\ fsteps' = fsteps + 1 =>
          IF fout'.ret = None
          THEN \A f \in DataFiles : fs'[f] = fs[f]
          ELSE /\ fout'.ret = aggregate_file
               /\ fs'[aggregate_file].exists
               /\ fs'[consumed_race_file] = fs[race_file]
               /\ fs'[consumed_practice_file] = fs[practice_file]]_vars

\* C18: combine_lap_data_files on a race file and a practice file as the
\* collector writes them writes output_file and returns its path.
C18_CombineWritesOutput ==
    [][(/\ fn' = "combine_lap_data_files"
        /\ fin' = <<race_file, practice_file, combined_laptimes>>
        /\ fs[race_file].exists /\ fs[practice_file].exists
        /\ fs[race_file].cols = race_columns
        /\ "Race Lap Time" \notin fs[practice_file].cols)
       => (fout'.ret = combined_laptimes /\ fs'[combined_laptimes].exists)]_vars

----------------------------------------------------------------------------
(* aggregate_median_lap_times on drawn wide tables                         *)

\* The FP1 lap times of the drawn tables, in ms; the mean of 61.000 and
\* 61.001 is a half-way case
LapTimes == {61000, 61001, 61004, 63000}

\* Lap i of the race: the even laps have no time
WideRaceCell(fmt, i) == IF i % 2 = 0 THEN NaN ELSE LapCell(fmt, 81000 + 4 * (i - 1))

WideRow(driver, lap, fp1, race) ==
    [c \in SeqToSet(final_columns) |->
        CASE c = "Year" -> 2024 [] c = "Track" -> "Monza"
          [] c = "Team" -> "Ferrari" [] c = "Driver" -> driver
          [] c = "LapNumber" -> lap
          [] c = "FP1 Lap Time" -> fp1
          [] c = "Race Lap Time" -> race
          [] c = "Position" -> IF driver = "LEC" THEN Pos(3) ELSE NaN
          [] OTHER -> NaN]

\* Wide tables as combine_practice_and_race_times lays them out: MaxLap + 1
\* laps of LEC after one lap of SAI
WideFiles ==
    {File(SeqToSet(final_columns),
          <<WideRow("SAI", 1, Num(63000), NaN)>>
              \o [i \in 1..(MaxLap + 1) |-> WideRow("LEC", i, fp1[i], WideRaceCell(fmt, i))]) :
        fp1 \in [1..(MaxLap + 1) -> {NaN} \cup {Num(ms) : ms \in LapTimes}],
        fmt \in Formats}

AggregateInit ==
    /\ CollectorIdle
    /\ \E wide \in WideFiles :
          fs = [f \in Paths |-> IF f = aggregate_file THEN wide ELSE NoFile]
    /\ calls = <<>>
    /\ fn = "none" /\ fin = <<>> /\ fout = <<>> /\ fsteps = 0

SpecAggregate == AggregateInit /\ [][AggregateMedianLapTimes]_vars

\* The cells of a lap-time column in the rows of the file that have the
\* key of a row of the result
GroupCells(file, row, col) ==
    ColumnOf(SelectSeq(file.rows,
                       LAMBDA r : KeyTuple(r, group_columns) = KeyTuple(row, group_columns)),
             col)

\* The same cells in seconds (a text column is converted), without the nulls
ValidSeconds(file, row, col) ==
    SelectSeq(GroupCells([file EXCEPT !.rows = ConvertIfObject(file.rows, col)], row, col),
              LAMBDA v : ~isna(v))

Aggregated == fn = "aggregate_median_lap_times" /\ fin = <<aggregate_file>> /\ ~fout.none

\* C12 as stated: the result for a group is the mean of the lap times of the
\* column that are not null, and is null exactly when every one is null.
C12_MeanOfNonNull ==
    Aggregated =>
        \A g \in 1..Len(fout.rows) : \A c \in SeqToSet(time_columns) :
            LET cells == GroupCells(fs[aggregate_file], fout.rows[g], c)
                valid == SelectSeq(cells, LAMBDA v : ~isna(v))
                result == fout.rows[g][c]
            IN  /\ isna(result) <=> valid = <<>>
                /\ ~isna(result) =>
                      result.ms * Len(valid) = SumMs(ValidSeconds(fs[aggregate_file], fout.rows[g], c))

\* C12 amended: the result for a group is the mean, rounded to 3 decimals
\* (whole milliseconds), of the lap times that are not null once converted
\* to seconds, and is null exactly when there is none; every group of the
\* file has one row.
C12_RoundedMeanOfNonNull ==
    Aggregated =>
        /\ \A i \in 1..Len(fs[aggregate_file].rows) :
              Cardinality({g \in 1..Len(fout.rows) :
                  KeyTuple(fout.rows[g], group_columns)
                      = KeyTuple(fs[aggregate_file].rows[i], group_columns)}) = 1
        /\ \A g \in 1..Len(fout.rows) : \A c \in SeqToSet(time_columns) :
              LET valid == ValidSeconds(fs[aggregate_file], fout.rows[g], c)
                  n == Len(valid)
                  result == fout.rows[g][c]
                  diff == result.ms * n - SumMs(valid)
              IN  IF n = 0 THEN isna(result)
                  ELSE /\ result.tag = "num"
                       /\ 2 * diff <= n /\ -2 * diff <= n

\* LEC's FP1 laps 61.0, null, 63.0 have given 62.0
C12_Witness ==
    /\ Aggregated
    /\ fs[aggregate_file].rows[2]["FP1 Lap Time"] = Num(61000)
    /\ fs[aggregate_file].rows[3]["FP1 Lap Time"] = NaN
    /\ fs[aggregate_file].rows[4]["FP1 Lap Time"] = Num(63000)
    /\ \E g \in 1..Len(fout.rows) :
          /\ fout.rows[g]["Driver"] = "LEC"
          /\ fout.rows[g]["FP1 Lap Time"] = Num(62000)

----------------------------------------------------------------------------
(* The interactive run (the __main__ block).  pc is the input() the run is *)
(* about to make, or the position inside F1_API_Data_Collection while the  *)
(* collection runs; calls lists the input() made, with their answers,      *)
(* among the calls of the collection.  An Ask action is one input() with   *)
(* the code that follows it up to the next input() or up to the call of    *)
(* F1_API_Data_Collection, whose steps are the actions of the collector.   *)

median_lap_times_by_year == "median_lap_times_by_year.csv"
CliPaths == Paths \cup {median_lap_times_by_year}

\* What the user may type
Answers == {"1", "2", ""}
PathAnswers == {"", race_file, combined_laptimes}

Input(prompt, answer) == [op |-> "input", prompt |-> prompt, answer |-> answer]

\* A run that asks for the sessions whatever the first answer
AfterCollectAlways(collect_choice) == "sessions"

\* line 856: if collect_choice == "1"
AfterCollect(collect_choice) == IF collect_choice = "1" THEN "sessions" ELSE "combine"

\* lines 865-870
SessionsChosen(session_choice) ==
    IF session_choice = "2" THEN <<"FP1", "FP2", "FP3">> ELSE <<"Race">>

\* line 873: list(range(2020, 2026))
DefaultYears == <<2020, 2021, 2022, 2023, 2024, 2025>>

\* What fastf1.get_event_schedule does for the six years: the schedule of
\* 2020 raises or holds up to two events, the later schedules are empty
CliSchedules ==
    {[i \in 1..Len(DefaultYears) |->
        IF i = 1 THEN sched ELSE [raises |-> FALSE, rows |-> <<>>]] :
     sched \in {[raises |-> TRUE, rows |-> <<>>]}
                  \cup {[raises |-> FALSE, rows |-> SubSeq(Calendar, 1, n)] : n \in 0..2}}

CliInit ==
    /\ pc = "collect"
    /\ calls = <<>>
    /\ \E race \in {NoFile, TableFile(LapRows("Race", "Ferrari", "seconds", 1))},
          practice \in {NoFile, TableFile(LapRows("FP1", "Ferrari", "seconds", 1))},
          old \in {NoFile, OldAggregateFile} :
          fs = [f \in CliPaths |->
                  CASE f = race_file -> race
                    [] f = practice_file -> practice
                    [] f = aggregate_file -> old
                    [] OTHER -> NoFile]
    /\ event_schedule \in CliSchedules
    /\ years = <<>> /\ sessions_to_collect = <<>>
    /\ yi = 1 /\ schedule = <<>> /\ ei = 1 /\ si = 1
    /\ race_success = FALSE /\ consecutive_failures = 0 /\ all_laps = <<>>
    /\ successful_races = {} /\ failed_races = {} /\ skipped_races = <<>>
    /\ output_file = None
    /\ fn = "none" /\ fin = <<>> /\ fout = <<>> /\ fsteps = 0

\* What the inputs leave alone: the state of the collection
collection_vars == <<yi, schedule, ei, si, race_success, consecutive_failures, all_laps,
                     successful_races, failed_races, skipped_races, event_schedule,
                     fn, fin, fsteps>>

\* line 854
AskCollect ==
    /\ pc = "collect"
    /\ \E collect_choice \in Answers :
          /\ calls' = Append(calls, Input("collect", collect_choice))
          /\ pc' = AfterCollect(collect_choice)
    /\ UNCHANGED <<years, sessions_to_collect, output_file, fs, fout>>
    /\ UNCHANGED collection_vars

\* lines 863-877: the session choice, up to the call of F1_API_Data_Collection
AskSessions ==
    /\ pc = "sessions"
    /\ \E session_choice \in Answers :
          /\ calls' = Append(calls, Input("sessions", session_choice))
          /\ sessions_to_collect' = SessionsChosen(session_choice)
    /\ years' = DefaultYears
    /\ pc' = "year"
    /\ UNCHANGED <<output_file, fs, fout>>
    /\ UNCHANGED collection_vars

\* lines 882-906: reached without a collection, or once it has returned
AskCombine ==
    /\ pc \in {"combine", "done"}
    /\ \E combine_choice \in Answers :
          /\ calls' = Append(calls, Input("combine", combine_choice))
          /\ IF combine_choice = "1"
             THEN LET r == combine_practice_and_race_times(fs)
                  IN  fs' = r.fs /\ output_file' = r.ret
             ELSE UNCHANGED <<fs, output_file>>
    /\ pc' = "aggregate"
    /\ UNCHANGED <<years, sessions_to_collect, fout>>
    /\ UNCHANGED collection_vars

\* lines 913-915
AskAggregate ==
    /\ pc = "aggregate"
    /\ \E aggregate_choice \in Answers :
          /\ calls' = Append(calls, Input("aggregate", aggregate_choice))
          /\ pc' = IF aggregate_choice = "1" THEN "path" ELSE "exit"
    /\ UNCHANGED <<years, sessions_to_collect, output_file, fs, fout>>
    /\ UNCHANGED collection_vars

\* lines 917-931: the path of the lap data file, then the aggregation
AskPath ==
    /\ pc = "path"
    /\ \E answer \in PathAnswers :
       \E up \in SUBSET TieCells(fs, IF answer = "" THEN aggregate_file ELSE answer) :
          LET input_file == IF answer = "" THEN aggregate_file ELSE answer
              result == aggregate_median_lap_times(fs, input_file, up)
          IN  /\ calls' = Append(calls, Input("path", answer))
              /\ fout' = result
              /\ IF result.none
                 THEN UNCHANGED <<fs, output_file>>
                 ELSE /\ output_file' = median_lap_times_by_year
                      /\ fs' = [fs EXCEPT ![median_lap_times_by_year] = TableFile(result.rows)]
    /\ pc' = "exit"
    /\ UNCHANGED <<years, sessions_to_collect>>
    /\ UNCHANGED collection_vars

CliNext ==
    \/ AskCollect
    \/ AskSessions
    \/ YearsExhausted /\ UNCHANGED fvars
    \/ ScheduleRaises /\ UNCHANGED fvars
    \/ ScheduleLoaded /\ UNCHANGED fvars
    \/ EventsExhausted /\ UNCHANGED fvars
    \/ SkipEvent /\ UNCHANGED fvars
    \/ StartEvent /\ UNCHANGED fvars
    \/ FetchRaises /\ UNCHANGED fvars
    \/ FetchEmpty /\ UNCHANGED fvars
    \/ FetchLaps /\ UNCHANGED fvars
    \/ EndEvent /\ UNCHANGED fvars
    \/ Save /\ UNCHANGED fvars
    \/ AskCombine
    \/ AskAggregate
    \/ AskPath

SpecCLI == CliInit /\ [][CliNext]_vars

\* The questions asked so far, and the answer given to one of them
Inputs == SelectSeq(calls, LAMBDA c : c.op = "input")
Prompts == [i \in 1..Len(Inputs) |-> Inputs[i].prompt]
Answered(prompt, answer) ==
    \E i \in 1..Len(Inputs) : Inputs[i].prompt = prompt /\ Inputs[i].answer = answer

\* C14 as stated: a finished run has asked collect?, sessions?, years?,
\* combine?, aggregate? in this order, the sessions and years questions
\* exactly when the answer to collect? was "1".
C14_PromptOrder ==
    pc = "exit" =>
        Prompts = <<"collect">>
                    \o (IF Answered("collect", "1") THEN <<"sessions", "years">> ELSE <<>>)
                    \o <<"combine", "aggregate">>

\* C14 amended: a finished run has asked collect?, sessions?, combine?,
\* aggregate? and the file path in this order, the sessions question exactly
\* when the answer to collect? was "1", the file path exactly when the
\* answer to aggregate? was "1", and no question about the years.
C14_PromptOrderNoYears ==
    pc = "exit" =>
        Prompts = <<"collect">>
                    \o (IF Answered("collect", "1") THEN <<"sessions">> ELSE <<>>)
                    \o <<"combine", "aggregate">>
                    \o (IF Answered("aggregate", "1") THEN <<"path">> ELSE <<>>)

\* A finished run that collected and aggregated: five questions, and a
\* collection over 2020..2025 that fetched a session
C14_Witness ==
    /\ pc = "exit"
    /\ Answered("collect", "1") /\ Answered("aggregate", "1")
    /\ Len(Prompts) = 5
    /\ years = DefaultYears
    /\ \E i \in 1..Len(calls) : calls[i].op = "get_session"

====
